---- MODULE Spec2Model ----
(***************************************************************************)
(* Model of the InteractiveGraph React component                           *)
(* (src/frontend/src/components/InteractiveGraph.tsx, lines 1-402): the    *)
(* circular initial layout, the force simulation driven by setInterval,    *)
(* the 3 s cutoff timer, the pointer handlers and the SVG renderer.        *)
(*                                                                         *)
(* Numbers.  The component computes with IEEE doubles.  Here a length is   *)
(* an integer number of 1/FP pixels (FP = 100, centi-pixels) and a force   *)
(* is an integer number of 1/FP force units; every quotient is truncated   *)
(* toward zero.  The comparisons of the code (distance > 0, distance <     *)
(* 120, distance > 100, the clamp, the falsy test !node.x) are evaluated   *)
(* exactly on these integers.  The NaN produced by 0 / 0 is the value NaN.  *)
(***************************************************************************)
EXTENDS Integers, Sequences, FiniteSets, TLC

VARIABLES
    data,          \* prop `data`: the graph payload of the caller, or NoData
    width,         \* prop `width`  (pixels)
    height,        \* prop `height` (pixels)
    nodes,         \* useState nodes: sequence of engine-owned node copies
    edges,         \* useState edges
    selectedNode,  \* useState selectedNode: id of the node object, or NoNode
    isDragging,    \* useState isDragging
    dragNode,      \* useState dragNode: id of the node object, or NoNode
    intervals,     \* active setInterval timers: id -> [rem, data, width, height]
    timeouts,      \* pending setTimeout timers: id -> [rem, target]
    cleanup,       \* interval id the effect's pending cleanup will clear, or NoTimer
    mounted,       \* the component is mounted
    runs,          \* number of times the effect body has run (also the last timer id)
    events,        \* number of environment events (pointer, props) so far
    ticks,         \* history: simulate calls since the effect last started an interval
    last,          \* history: the operation that produced this state
    pointer,       \* history: coordinate of the most recent handled pointer-move
    released       \* history: id of the node whose drag the last release ended

\* the browser session around the dashboard (app/page.tsx,
\* app/auth/verify-email/page.tsx, components/ui/LogoutButton.tsx, and the api
\* client and dashboard page of InteractiveGraph.tsx, lines 669-3363)
VARIABLES
    storage,       \* localStorage: key -> item, NoItem for a key that is not set
    page,          \* the route shown: "auth" (login, verify-email) or "dashboard"
    instance,      \* number of DashboardPage instances mounted so far
    documents,     \* useState documents of the dashboard: sequence of doc ids
    deleteConfirm, \* useState deleteConfirm: doc id or NoDoc
    deleting,      \* useState deleting: doc id or NoDoc
    serverDocs,    \* the documents the backend holds
    requests,      \* api requests in flight: id -> [kind, doc, auth, inst, late, resp]
    sent,          \* number of api requests sent so far (also the last request id)
    reloads,       \* pending setTimeout reloads: bag of dashboard instances
    loggedOut      \* history: handleLogout ran and no token was stored since

\* the FileUpload component of the dashboard (InteractiveGraph.tsx, lines
\* 404-668)
VARIABLES
    files,         \* useState files: sequence of UploadFile [file, id, status, error]
    batches,       \* handleFiles calls waiting for an upload: id -> [newFiles, at]
    picked,        \* number of files handed to handleFiles so far (also the last file id)
    handled,       \* number of handleFiles calls so far (also the last batch id)
    log,           \* history: file id -> [file, batch, statuses written to it]
    uploads,       \* history: documentsAPI.upload calls and their settling, in order
    delivered      \* history: file ids whose document went to onUploadSuccess

\* the summary modal of the dashboard (InteractiveGraph.tsx, lines 2347-2359,
\* 2561-2642 and 3039-3360)
VARIABLES
    selectedDocument,  \* useState selectedDocument: a Document or NoDocument
    showSummaryModal,  \* useState showSummaryModal
    scriptData,        \* useState scriptData: the document whose script it is, or NoDoc
    loadingScript,     \* useState loadingScript
    activeTab,         \* useState activeTab
    audioUrls,         \* summary_audio_url of the Documents in useState documents: set or not
    serverAudio,       \* the documents for which the backend holds generated audio
    calls,             \* async handlers waiting on the api: id -> [fn, doc, seen, step, auto, opening]
    started,           \* number of async handler calls so far (also the last call id)
    opened             \* history: number of times the modal was opened

graphVars == <<data, width, height, nodes, edges, selectedNode, isDragging, dragNode,
               intervals, timeouts, cleanup, mounted, runs, events,
               ticks, last, pointer, released>>

appVars == <<storage, page, instance, documents, deleteConfirm, deleting,
             serverDocs, requests, sent, reloads, loggedOut>>

uploadVars == <<files, batches, picked, handled, log, uploads, delivered>>

modalVars == <<selectedDocument, showSummaryModal, scriptData, loadingScript,
               activeTab, audioUrls, serverAudio, calls, started, opened>>

vars == <<graphVars, appVars, uploadVars, modalVars>>

\* what a handler of the graph component leaves alone
besideGraph == <<appVars, uploadVars, modalVars>>

\* what a handler of the auth pages and of the document list leaves alone
besideApp == <<graphVars, uploadVars, modalVars>>

(***************************************************************************)
(* Bounds of the model                                                     *)
(***************************************************************************)
\* environment events (pointer down, move, up, leave; changed props)
\* delivered to one mounted component
MaxEvents == 3
\* api requests sent in one browser session
MaxRequests == 5
\* the environment acts while no interval is active, or within the first
\* MaxEarlyTicks periods of the running interval; the ticks of a run go on
\* to the cutoff
MaxEarlyTicks == 1

(***************************************************************************)
(* Program constants                                                       *)
(***************************************************************************)
FP == 100
SimPeriod == 50
SimCutoff == 3000
DefaultWidth == 800
DefaultHeight == 600
Margin == 50
MinDistance == 120
RepulsionK == 500
RestLength == 100
SelectedExtra == 4

\* a payload for which !data || !data.nodes holds (line 49)
NoData == [missing |-> TRUE]

HasNodes(d) == "nodes" \in DOMAIN d
NoNode == "none"
NoTimer == 0
\* a double is the one-element sequence of its value in 1/FP units, or NaN
NaN == << >>

Num(v) == << v >>

(***************************************************************************)
(* Arithmetic helpers                                                      *)
(***************************************************************************)
Abs(a) == IF a < 0 THEN -a ELSE a

Min(a, b) == IF a < b THEN a ELSE b

Max(a, b) == IF a > b THEN a ELSE b

\* quotient of a double division, truncated toward zero
Trunc(a, b) == IF a >= 0 THEN a \div b ELSE -((-a) \div b)

RECURSIVE IsqrtIn(_, _, _)
IsqrtIn(n, lo, hi) ==
    IF lo >= hi THEN lo
    ELSE LET mid == (lo + hi + 1) \div 2
         IN IF mid * mid <= n THEN IsqrtIn(n, mid, hi) ELSE IsqrtIn(n, lo, mid - 1)

\* Math.sqrt, truncated to an integer
Isqrt(n) == IsqrtIn(n, 0, 46340)

\* Math.sqrt(dx * dx + dy * dy) in 1/FP pixels; beyond 300 px the squares are
\* taken in 1/10 of the unit so that they stay within 32 bits
Hypot(dx, dy) ==
    IF Abs(dx) <= 30000 /\ Abs(dy) <= 30000
    THEN Isqrt(dx * dx + dy * dy)
    ELSE 10 * Isqrt(Trunc(dx, 10) * Trunc(dx, 10) + Trunc(dy, 10) * Trunc(dy, 10))

\* JavaScript truthiness of a number: 0 (and NaN, undefined) are falsy
Truthy(v) == v # 0

(***************************************************************************)
(* Inputs: graph payloads, viewports, Math.random() outcomes, pointer      *)
(* coordinates                                                             *)
(***************************************************************************)
MkNode(id, label, type, description, size) ==
    [id |-> id, label |-> label, type |-> type, description |-> description, size |-> size]

MkEdge(from, to, label, type) ==
    [from |-> from, to |-> to, label |-> label, type |-> type]

\* the example of the specification: {central, key} and one primary edge
GraphPrimary ==
    [nodes |-> << MkNode("central", "Central", "central", "root concept", "large"),
                  MkNode("key", "Key", "key", "", "medium") >>,
     edges |-> << MkEdge("central", "key", "leads to", "primary") >>]

\* a payload with a self-loop, an edge to an identifier that names no node,
\* a duplicated edge and a size class outside large/medium/small
GraphLoose ==
    [nodes |-> << MkNode("a", "Alpha", "support", "", "small"),
                  MkNode("b", "Beta", "bridge", "", "huge"),
                  MkNode("c", "Gamma", "application", "", "medium") >>,
     edges |-> << MkEdge("a", "a", "self", "cross_link"),
                  MkEdge("a", "ghost", "", "elaborates"),
                  MkEdge("b", "a", "uses", "elaborates"),
                  MkEdge("b", "a", "uses", "elaborates") >>]

Graphs == {GraphPrimary, GraphLoose}

\* [width, height] in pixels: the defaults (lines 37-38) and a small viewport
Viewports == { <<DefaultWidth, DefaultHeight>>, <<120, 120>> }

\* values of (Math.random() - 0.5) * 40, in 1/FP pixels: the range [-20, 20)
JitterMin == -20 * FP

JitterMax == 20 * FP - 1

Jitters == { JitterMin, JitterMax }

\* pointer coordinates clientX - rect.left, clientY - rect.top, in pixels
PointerCoords == { <<0, 60>>, <<90, 60>> }

(***************************************************************************)
(* Initial layout (effect body, lines 52-67)                               *)
(***************************************************************************)
\* 1000 * Math.cos((index / n) * 2 * Math.PI), index counted from 0
Cos1000(index, n) ==
    CASE index = 0 -> 1000
      [] n = 2 /\ index = 1 -> -1000
      [] n = 3 /\ index \in {1, 2} -> -500
      [] n = 4 /\ index = 1 -> 0
      [] n = 4 /\ index = 2 -> -1000
      [] n = 4 /\ index = 3 -> 0

\* 1000 * Math.sin((index / n) * 2 * Math.PI), index counted from 0
Sin1000(index, n) ==
    CASE index = 0 -> 0
      [] n = 2 /\ index = 1 -> 0
      [] n = 3 /\ index = 1 -> 866
      [] n = 3 /\ index = 2 -> -866
      [] n = 4 /\ index = 1 -> 1000
      [] n = 4 /\ index = 2 -> 0
      [] n = 4 /\ index = 3 -> -1000

CenterX(w) == (w * FP) \div 2

CenterY(h) == (h * FP) \div 2

\* a ring of half the shorter side, Math.min(width, height) * 0.5
LayoutRadiusHalf(w, h) == (Min(w, h) * FP) \div 2

\* radius = Math.min(width, height) * 0.35
LayoutRadius(w, h) == (Min(w, h) * FP * 35) \div 100

\* data.nodes.map((node, index) => ({...node, x, y, vx: 0, vy: 0}));
\* jit[i] is the randomOffset drawn for the i-th node
InitializedNodes(d, w, h, jit) ==
    [i \in 1..Len(d.nodes) |->
        LET node == d.nodes[i]
            n == Len(d.nodes)
            reach == LayoutRadius(w, h) + jit[i]
        IN [id |-> node.id, label |-> node.label, type |-> node.type,
            description |-> node.description, size |-> node.size,
            x |-> CenterX(w) + Trunc(Cos1000(i - 1, n) * reach, 1000),
            y |-> CenterY(h) + Trunc(Sin1000(i - 1, n) * reach, 1000),
            vx |-> 0, vy |-> 0]]

\* a find that falls back to the first node when nothing matches
FindNodeOrFirst(ns, id) ==
    IF \E i \in 1..Len(ns) : ns[i].id = id
    THEN CHOOSE i \in 1..Len(ns) : ns[i].id = id /\ \A j \in 1..(i - 1) : ns[j].id # id
    ELSE IF Len(ns) > 0 THEN 1 ELSE 0

\* newNodes.find(n => n.id === id): index of the first match, 0 for undefined
FindNode(ns, id) ==
    IF \E i \in 1..Len(ns) : ns[i].id = id
    THEN CHOOSE i \in 1..Len(ns) : ns[i].id = id /\ \A j \in 1..(i - 1) : ns[j].id # id
    ELSE 0

(***************************************************************************)
(* One simulation tick (simulate, lines 73-144)                            *)
(***************************************************************************)
\* 0.1, the attraction force of line 117, in 1/FP force units
AttractionForce == FP \div 10

\* lines 87-99: the force <<fx, fy>> that `other` adds to `node`
Repulsion(node, other) ==
    IF ~Truthy(other.x) \/ ~Truthy(other.y) THEN <<0, 0>>
    ELSE LET dx == node.x - other.x
             dy == node.y - other.y
         IN IF Abs(dx) >= MinDistance * FP \/ Abs(dy) >= MinDistance * FP
            THEN <<0, 0>>
            ELSE LET d2 == dx * dx + dy * dy
                     distance == Hypot(dx, dy)
                     force == (RepulsionK * FP * FP * FP) \div d2
                 IN IF d2 > 0 /\ d2 < (MinDistance * FP) * (MinDistance * FP)
                    THEN << Trunc(dx * force, distance), Trunc(dy * force, distance) >>
                    ELSE <<0, 0>>

\* lines 104-109: index of connectedNode in newNodes, 0 for null / undefined
ConnectedNode(ns, node, edge) ==
    IF edge.from = node.id THEN FindNode(ns, edge.to)
    ELSE IF edge.to = node.id THEN FindNode(ns, edge.from)
    ELSE 0

\* distance > 100 of line 116, decided exactly
BeyondRest(dx, dy) ==
    \/ Abs(dx) > RestLength * FP
    \/ Abs(dy) > RestLength * FP
    \/ dx * dx + dy * dy > (RestLength * FP) * (RestLength * FP)

\* lines 103-122: the force <<fx, fy>> that `edge` adds to `node`
Attraction(ns, node, edge) ==
    LET c == ConnectedNode(ns, node, edge)
    IN IF c = 0 THEN <<0, 0>>
       ELSE IF ~(Truthy(ns[c].x) /\ Truthy(ns[c].y) /\ Truthy(node.x) /\ Truthy(node.y))
       THEN <<0, 0>>
       ELSE LET dx == ns[c].x - node.x
                dy == ns[c].y - node.y
                distance == Hypot(dx, dy)
            IN IF BeyondRest(dx, dy)
               THEN << Trunc(dx * AttractionForce, distance),
                       Trunc(dy * AttractionForce, distance) >>
               ELSE <<0, 0>>

\* a centering force ten times as strong, centerDx * 0.1
CenteringTenfold(node, w, h) ==
    << Trunc(CenterX(w) - node.x, 10), Trunc(CenterY(h) - node.y, 10) >>

\* lines 125-128: centerDx * 0.01, centerDy * 0.01
Centering(node, w, h) ==
    << Trunc(CenterX(w) - node.x, 100), Trunc(CenterY(h) - node.y, 100) >>

Add2(a, b) == << a[1] + b[1], a[2] + b[2] >>

\* lines 85-100: the repulsion on newNodes[i] from newNodes[j], newNodes[j+1], ...
RECURSIVE RepulsionFrom(_, _, _)
RepulsionFrom(ns, i, j) ==
    IF j > Len(ns) THEN <<0, 0>>
    ELSE IF j = i THEN RepulsionFrom(ns, i, j + 1)
    ELSE Add2(Repulsion(ns[i], ns[j]), RepulsionFrom(ns, i, j + 1))

\* lines 103-122: the attraction on newNodes[i] from the edges k, k+1, ...
RECURSIVE AttractionFrom(_, _, _, _)
AttractionFrom(ns, i, es, k) ==
    IF k > Len(es) THEN <<0, 0>>
    ELSE Add2(Attraction(ns, ns[i], es[k]), AttractionFrom(ns, i, es, k + 1))

\* lines 82-128: the net force <<fx, fy>> on newNodes[i]
NetForce(ns, i, es, w, h) ==
    Add2(Add2(RepulsionFrom(ns, i, 1), AttractionFrom(ns, i, es, 1)),
         Centering(ns[i], w, h))

\* lines 137-139: Math.max(50, Math.min(width - 50, x))
Clamp(v, size) == Max(Margin * FP, Min((size - Margin) * FP, v))

\* an integration that stops a node at the wall: the velocity of a clamped
\* coordinate is set to 0
IntegrateStopAtWall(node, f, w, h) ==
    LET nvx == Trunc(8 * node.vx + f[1], 10)
        nvy == Trunc(8 * node.vy + f[2], 10)
    IN [node EXCEPT !.vx = IF Clamp(node.x + nvx, w) = node.x + nvx THEN nvx ELSE 0,
                    !.vy = IF Clamp(node.y + nvy, h) = node.y + nvy THEN nvy ELSE 0,
                    !.x = Clamp(node.x + nvx, w),
                    !.y = Clamp(node.y + nvy, h)]

\* lines 130-139: velocity, position and clamp of one node under force f
Integrate(node, f, w, h) ==
    LET nvx == Trunc(8 * node.vx + f[1], 10)
        nvy == Trunc(8 * node.vy + f[2], 10)
    IN [node EXCEPT !.vx = nvx, !.vy = nvy,
                    !.x = Clamp(node.x + nvx, w),
                    !.y = Clamp(node.y + nvy, h)]

\* line 80: if (!node.x || !node.y) continue
Skipped(node) == ~Truthy(node.x) \/ ~Truthy(node.y)

\* lines 78-140, one iteration of the loop: the nodes are updated in place,
\* so node i sees the new positions of the nodes before it
StepNode(ns, i, es, w, h) ==
    IF Skipped(ns[i]) THEN ns
    ELSE [ns EXCEPT ![i] = Integrate(ns[i], NetForce(ns, i, es, w, h), w, h)]

RECURSIVE SimulateFrom(_, _, _, _, _)
SimulateFrom(ns, i, es, w, h) ==
    IF i > Len(ns) THEN ns
    ELSE SimulateFrom(StepNode(ns, i, es, w, h), i + 1, es, w, h)

\* lines 74-143: the updater passed to setNodes; d is the payload the
\* closure captured (data.edges?.forEach)
Simulate(ns, d, w, h) == SimulateFrom(ns, 1, d.edges, w, h)

(***************************************************************************)
(* Timers of the browser event loop (setInterval / setTimeout /            *)
(* clearInterval, lines 147-150).  A timer record keeps the time that      *)
(* remains until it is due; the timer that fires is one that is due first, *)
(* and two timers due at the same instant fire in either order.            *)
(***************************************************************************)
Remaining == { intervals[k].rem : k \in DOMAIN intervals }
                 \cup { timeouts[k].rem : k \in DOMAIN timeouts }

Due(rem) == \A r \in Remaining : rem <= r

Advance(timers, dt) == [k \in DOMAIN timers |-> [timers[k] EXCEPT !.rem = @ - dt]]

\* clearInterval(id); clearing an id that is not active does nothing
ClearInterval(timers, id) == [k \in DOMAIN timers \ {id} |-> timers[k]]

\* a timeout that has fired is gone
Expire(timers, id) == [k \in DOMAIN timers \ {id} |-> timers[k]]

\* time since the interval of the current effect run was started
Elapsed == SimCutoff - timeouts[cleanup].rem

\* the environment acts while no interval is active or within the first
\* MaxEarlyTicks periods of the running one
InputWindow ==
    \/ DOMAIN intervals = {}
    \/ cleanup \in DOMAIN timeouts /\ Elapsed <= MaxEarlyTicks * SimPeriod

NoPointer == << -1, -1 >>

(***************************************************************************)
(* The browser session before anything happened                            *)
(***************************************************************************)
\* localStorage.getItem of a key that is not set
NoItem == "null"

\* the keys the code reads or writes (page.tsx 252-253, verify-email 23,
\* LogoutButton 25-26, api interceptors 690 and 702-703)
StorageKeys == {"auth_token", "user", "token"}

\* useState<string | null>(null)
NoDoc == "null"

\* the documents of the backend
Docs == {"d1", "d2"}

\* a fresh browser on the login page; the backend holds Docs
AppIdle ==
    /\ storage = [k \in StorageKeys |-> NoItem]
    /\ page = "auth"
    /\ instance = 0
    /\ documents = << >>
    /\ deleteConfirm = NoDoc
    /\ deleting = NoDoc
    /\ serverDocs = Docs
    /\ requests = << >>
    /\ sent = 0
    /\ reloads = << >>
    /\ loggedOut = FALSE

\* FileUpload before any file was picked (line 426)
UploadIdle ==
    /\ files = << >>
    /\ batches = << >>
    /\ picked = 0
    /\ handled = 0
    /\ log = << >>
    /\ uploads = << >>
    /\ delivered = {}

\* useState<Document | null>(null); a Document is [doc_id, summary_audio_url],
\* summary_audio_url being set or not
NoDocument == [doc_id |-> NoDoc, summary_audio_url |-> FALSE]

\* lines 2347-2359: the modal state of a new DashboardPage
ModalClosed ==
    /\ selectedDocument = NoDocument
    /\ showSummaryModal = FALSE
    /\ scriptData = NoDoc
    /\ loadingScript = FALSE
    /\ activeTab = "summary"
    /\ calls = << >>
    /\ started = 0
    /\ opened = 0

\* a dashboard whose modal was never opened; no document has audio
ModalIdle ==
    /\ ModalClosed
    /\ audioUrls = [d \in Docs |-> FALSE]
    /\ serverAudio = [d \in Docs |-> FALSE]

(***************************************************************************)
(* The effect (lines 48-151)                                               *)
(***************************************************************************)
\* lines 49-150: the effect body for props d, w, h, after the cleanup of the
\* previous run has cleared `cleared`
RunEffect(d, w, h, jit, cleared) ==
    /\ data' = d
    /\ width' = w
    /\ height' = h
    /\ runs' = runs + 1
    /\ IF ~HasNodes(d)
       THEN /\ intervals' = cleared
            /\ cleanup' = NoTimer
            /\ last' = "props"
            /\ UNCHANGED <<nodes, edges, timeouts, ticks>>
       ELSE /\ nodes' = InitializedNodes(d, w, h, jit)
            /\ edges' = d.edges
            /\ intervals' = cleared @@
                   ((runs + 1) :> [rem |-> SimPeriod, data |-> d, width |-> w, height |-> h])
            /\ timeouts' = timeouts @@
                   ((runs + 1) :> [rem |-> SimCutoff, target |-> runs + 1])
            /\ cleanup' = runs + 1
            /\ ticks' = 0
            /\ last' = "init"

\* a cleanup that forgets to clear the interval
CleanupNothing(timers) == timers

\* line 150: the cleanup returned by the previous run
Cleanup(timers) == IF cleanup = NoTimer THEN timers ELSE ClearInterval(timers, cleanup)

\* the randomOffset of every node of one run: the same extreme for all nodes,
\* or the two extremes alternating
JitterChoices(d) ==
    IF ~HasNodes(d) THEN { <<>> }
    ELSE { [i \in 1..Len(d.nodes) |-> j] : j \in Jitters }
         \cup { [i \in 1..Len(d.nodes) |-> IF i % 2 = 1 THEN JitterMin ELSE JitterMax] }

Init ==
    \E d \in Graphs, vp \in Viewports :
    \E jit \in JitterChoices(d) :
        /\ data = d
        /\ width = vp[1]
        /\ height = vp[2]
        /\ nodes = InitializedNodes(d, vp[1], vp[2], jit)
        /\ edges = d.edges
        /\ selectedNode = NoNode
        /\ isDragging = FALSE
        /\ dragNode = NoNode
        /\ intervals = (1 :> [rem |-> SimPeriod, data |-> d, width |-> vp[1], height |-> vp[2]])
        /\ timeouts = (1 :> [rem |-> SimCutoff, target |-> 1])
        /\ cleanup = 1
        /\ mounted = TRUE
        /\ runs = 1
        /\ events = 0
        /\ ticks = 0
        /\ last = "init"
        /\ pointer = NoPointer
        /\ released = NoNode
        /\ AppIdle
        /\ UploadIdle
        /\ ModalIdle

\* the props data, width or height change: React runs the cleanup of the
\* previous run and then the effect body again
PropsChange ==
    /\ mounted
    /\ InputWindow
    /\ events < MaxEvents
    /\ events' = events + 1
    /\ \E d \in Graphs \cup {NoData}, vp \in Viewports :
       \E jit \in JitterChoices(d) :
           RunEffect(d, vp[1], vp[2], jit, Cleanup(intervals))
    /\ UNCHANGED <<selectedNode, isDragging, dragNode, mounted, pointer, released>>
    /\ UNCHANGED besideGraph

\* the component is unmounted: React runs the cleanup
Unmount ==
    /\ mounted
    /\ InputWindow
    /\ mounted' = FALSE
    /\ intervals' = Cleanup(intervals)
    /\ cleanup' = NoTimer
    /\ last' = "unmount"
    /\ UNCHANGED <<data, width, height, nodes, edges, selectedNode, isDragging,
                   dragNode, timeouts, runs, events, ticks, pointer, released>>
    /\ UNCHANGED besideGraph

\* line 147: the interval `id` fires and calls simulate
Tick ==
    \E id \in DOMAIN intervals :
        /\ Due(intervals[id].rem)
        /\ LET dt == intervals[id].rem
               c == intervals[id]
           IN /\ nodes' = Simulate(nodes, c.data, c.width, c.height)
              /\ intervals' = [Advance(intervals, dt) EXCEPT ![id].rem = SimPeriod]
              /\ timeouts' = Advance(timeouts, dt)
        /\ ticks' = ticks + 1
        /\ last' = "tick"
        /\ UNCHANGED <<data, width, height, edges, selectedNode, isDragging, dragNode,
                       cleanup, mounted, runs, events, pointer, released>>
        /\ UNCHANGED besideGraph

\* a timeout callback that clears no interval
CutoffNoTarget(id) == NoTimer

\* a timeout callback that clears the interval of the latest effect run
CutoffLatest(id) == runs

\* line 148: the interval the callback of timeout `id` clears, the one created
\* by the same effect run
CutoffTarget(id) == timeouts[id].target

\* line 148: the timeout `id` fires and clears the interval it was created with
Cutoff ==
    \E id \in DOMAIN timeouts :
        /\ Due(timeouts[id].rem)
        /\ LET dt == timeouts[id].rem
           IN /\ intervals' = ClearInterval(Advance(intervals, dt), CutoffTarget(id))
              /\ timeouts' = Expire(Advance(timeouts, dt), id)
        /\ last' = "cutoff"
        /\ UNCHANGED <<data, width, height, nodes, edges, selectedNode, isDragging,
                       dragNode, cleanup, mounted, runs, events, ticks, pointer,
                       released>>
        /\ UNCHANGED besideGraph

(***************************************************************************)
(* Rendering (lines 164-171 and 231-354): a pure function of the state     *)
(***************************************************************************)
\* a getNodeSize that ignores the size class
getNodeSizeDefault(node) == 25

\* lines 164-171, in pixels
getNodeSize(node) ==
    CASE node.size = "large" -> 35
      [] node.size = "medium" -> 28
      [] node.size = "small" -> 22
      [] OTHER -> 25

\* line 305: if (!node.x || !node.y) return null
NodeDrawn(node) == Truthy(node.x) /\ Truthy(node.y)

\* line 309
isSelected(node) == selectedNode # NoNode /\ selectedNode = node.id

\* line 317: r={radius + (isSelected ? 4 : 0)}, in 1/FP pixels
CircleRadius(node) ==
    (getNodeSize(node) + (IF isSelected(node) THEN SelectedExtra ELSE 0)) * FP

\* (a / b) * scale for a component a of a vector of length b: 0 / 0 is NaN
Ratio(a, scale, b) == IF b = 0 THEN NaN ELSE Num(Trunc(a * scale, b))

\* v + d and v - d for a number v and a double d
Plus(v, d) == IF d = NaN THEN NaN ELSE Num(v + d[1])

Minus(v, d) == IF d = NaN THEN NaN ELSE Num(v - d[1])

\* lines 232-251: what edges.map returns for one edge: drawn = FALSE for null,
\* otherwise the <line> from (x1, y1) to (x2, y2) and the arrow at (x2, y2)
RenderEdge(ns, edge) ==
    LET f == FindNode(ns, edge.from)
        t == FindNode(ns, edge.to)
    IN IF f = 0 \/ t = 0 THEN [drawn |-> FALSE]
       ELSE IF ~NodeDrawn(ns[f]) \/ ~NodeDrawn(ns[t]) THEN [drawn |-> FALSE]
       ELSE LET dx == ns[t].x - ns[f].x
                dy == ns[t].y - ns[f].y
                length == Hypot(dx, dy)
                fromRadius == getNodeSize(ns[f])
                toRadius == getNodeSize(ns[t])
            IN [drawn |-> TRUE, from |-> f, to |-> t, length |-> length,
                fromRadius |-> fromRadius * FP, toRadius |-> toRadius * FP,
                x1 |-> Plus(ns[f].x, Ratio(dx, fromRadius * FP, length)),
                y1 |-> Plus(ns[f].y, Ratio(dy, fromRadius * FP, length)),
                x2 |-> Minus(ns[t].x, Ratio(dx, toRadius * FP, length)),
                y2 |-> Minus(ns[t].y, Ratio(dy, toRadius * FP, length)),
                \* line 267: edge.label && length > 80
                label |-> edge.label # "" /\ length > 80 * FP]

\* lines 231-301
RenderEdges == [k \in 1..Len(edges) |-> RenderEdge(nodes, edges[k])]

\* lines 304-354: the circle of one node, or drawn = FALSE for null
RenderNode(node) ==
    IF ~NodeDrawn(node) THEN [drawn |-> FALSE]
    ELSE [drawn |-> TRUE, cx |-> node.x, cy |-> node.y, r |-> CircleRadius(node)]

RenderNodes == [i \in 1..Len(nodes) |-> RenderNode(nodes[i])]

(***************************************************************************)
(* Pointer handlers (lines 173-201, wired at lines 215-217 and 322)        *)
(***************************************************************************)
\* lines 173-178; the circle of nodes[i] receives the event, so it is drawn
handleMouseDown(i) ==
    /\ isDragging' = TRUE
    /\ dragNode' = nodes[i].id
    /\ selectedNode' = nodes[i].id
    /\ UNCHANGED nodes

\* an updater that builds the dragged node anew without spreading the old one
MoveNodesBare(ns, id, x, y) ==
    [i \in 1..Len(ns) |->
        IF ns[i].id = id
        THEN [id |-> id, x |-> x, y |-> y, vx |-> 0, vy |-> 0]
        ELSE ns[i]]

\* lines 189-195: the updater passed to setNodes, (x, y) in 1/FP pixels
MoveNodes(ns, id, x, y) ==
    [i \in 1..Len(ns) |->
        IF ns[i].id = id
        THEN [ns[i] EXCEPT !.x = x, !.y = y, !.vx = 0, !.vy = 0]
        ELSE ns[i]]

\* lines 180-196, for the pointer at pixel (p[1], p[2]) of the svg
handleMouseMove(p) ==
    /\ IF ~isDragging \/ dragNode = NoNode
       THEN UNCHANGED nodes
       ELSE nodes' = MoveNodes(nodes, dragNode, p[1] * FP, p[2] * FP)
    /\ UNCHANGED <<isDragging, dragNode, selectedNode>>

\* a release that leaves the drag state as it was
handleMouseUpKeepsDrag == UNCHANGED <<isDragging, dragNode, nodes, selectedNode>>

\* lines 198-201
handleMouseUp ==
    /\ isDragging' = FALSE
    /\ dragNode' = NoNode
    /\ UNCHANGED <<nodes, selectedNode>>

PointerFrame ==
    /\ InputWindow
    /\ events < MaxEvents
    /\ events' = events + 1
    /\ UNCHANGED <<data, width, height, edges, intervals, timeouts, cleanup,
                   mounted, runs, ticks>>
    /\ UNCHANGED besideGraph

\* line 322: onMouseDown of a drawn circle
MouseDown ==
    /\ mounted
    /\ \E i \in 1..Len(nodes) : NodeDrawn(nodes[i]) /\ handleMouseDown(i)
    /\ PointerFrame
    /\ last' = "down"
    /\ pointer' = NoPointer
    /\ released' = NoNode

\* line 215: onMouseMove of the svg
MouseMove ==
    /\ mounted
    /\ \E p \in PointerCoords :
          /\ p[1] <= width /\ p[2] <= height
          /\ handleMouseMove(p)
          /\ pointer' = IF isDragging /\ dragNode # NoNode THEN p ELSE pointer
    /\ PointerFrame
    /\ last' = "move"
    /\ released' = NoNode

\* line 216: onMouseUp of the svg
MouseUp ==
    /\ mounted
    /\ handleMouseUp
    /\ PointerFrame
    /\ last' = "up"
    /\ pointer' = NoPointer
    /\ released' = dragNode

\* line 217: onMouseLeave of the svg
MouseLeave ==
    /\ mounted
    /\ handleMouseUp
    /\ PointerFrame
    /\ last' = "leave"
    /\ pointer' = NoPointer
    /\ released' = dragNode

Next ==
    \/ PropsChange
    \/ Unmount
    \/ Tick
    \/ Cutoff
    \/ MouseDown
    \/ MouseMove
    \/ MouseUp
    \/ MouseLeave

Spec == Init /\ [][Next]_vars

timerVars == <<intervals, timeouts, ticks>>

\* what a firing interval does to the timers (the timer part of Tick)
IntervalFires ==
    \E id \in DOMAIN intervals :
        /\ Due(intervals[id].rem)
        /\ intervals' = [Advance(intervals, intervals[id].rem) EXCEPT ![id].rem = SimPeriod]
        /\ timeouts' = Advance(timeouts, intervals[id].rem)
        /\ ticks' = ticks + 1

\* what a firing timeout does to the timers (the timer part of Cutoff)
TimeoutFires ==
    \E id \in DOMAIN timeouts :
        /\ Due(timeouts[id].rem)
        /\ intervals' = ClearInterval(Advance(intervals, timeouts[id].rem), CutoffTarget(id))
        /\ timeouts' = Expire(Advance(timeouts, timeouts[id].rem), id)
        /\ ticks' = ticks

\* the event loop runs every timer that is due
FairSpec == Spec /\ WF_timerVars(IntervalFires) /\ WF_timerVars(TimeoutFires)

(***************************************************************************)
(* The api client, the auth pages and the dashboard page                   *)
(***************************************************************************)
\* the access tokens the backend issues
Tokens == {"jwt1", "jwt2"}

\* a request without an Authorization header
NoHeader == "none"

\* the response has not been produced yet
Pending == [status |-> "pending", token |-> NoItem, docs |-> {}]

Response(status, token, docs) == [status |-> status, token |-> token, docs |-> docs]

\* the order in which the backend lists documents
DocOrder == << "d1", "d2" >>

RECURSIVE Keep(_, _)
\* seq.filter(d => d in S)
Keep(seq, S) ==
    IF Len(seq) = 0 THEN << >>
    ELSE (IF Head(seq) \in S THEN << Head(seq) >> ELSE << >>) \o Keep(Tail(seq), S)

\* response.documents for the backend holding S
Listing(S) == Keep(DocOrder, S)

Shown(doc) == \E i \in 1..Len(documents) : documents[i] = doc

\* api.interceptors.request (lines 689-695): the Authorization header of a
\* request sent while localStorage is st
Authorization(st) ==
    IF st["auth_token"] # NoItem THEN st["auth_token"] ELSE NoHeader

\* a request passes the request interceptor and is sent, joining the requests
\* reqs in flight; inst is the dashboard instance whose code awaits the
\* response, st localStorage at that moment, late whether handleLogout ran
\* before it with no token stored since
Dispatch(reqs, kind, doc, inst, st, late) ==
    /\ sent < MaxRequests
    /\ sent' = sent + 1
    /\ requests' = reqs @@ ((sent + 1) :>
           [kind |-> kind, doc |-> doc, auth |-> Authorization(st), inst |-> inst,
            late |-> late, resp |-> Pending])

Send(kind, doc) == Dispatch(requests, kind, doc, instance, storage, loggedOut)

\* the instance of code that a full page load has discarded
Dead == -1

Forget(reqs, id) == [k \in DOMAIN reqs \ {id} |-> reqs[k]]

\* the graph component is not on the page
GraphIdle ==
    /\ data = NoData
    /\ width = DefaultWidth
    /\ height = DefaultHeight
    /\ nodes = << >>
    /\ edges = << >>
    /\ selectedNode = NoNode
    /\ isDragging = FALSE
    /\ dragNode = NoNode
    /\ intervals = << >>
    /\ timeouts = << >>
    /\ cleanup = NoTimer
    /\ mounted = FALSE
    /\ runs = 0
    /\ events = 0
    /\ ticks = 0
    /\ last = "none"
    /\ pointer = NoPointer
    /\ released = NoNode

AppInit == GraphIdle /\ AppIdle /\ UploadIdle /\ ModalIdle

\* page.tsx lines 236-248: LoginPage.handleSubmit up to the await
LoginSubmit ==
    /\ page = "auth"
    /\ Send("login", NoDoc)
    /\ UNCHANGED <<storage, page, instance, documents, deleteConfirm, deleting,
                   serverDocs, reloads, loggedOut>>
    /\ UNCHANGED besideApp

\* verify-email/page.tsx lines 17-22: VerifyEmailPage.handleSubmit up to the await
VerifySubmit ==
    /\ page = "auth"
    /\ Send("verify", NoDoc)
    /\ UNCHANGED <<storage, page, instance, documents, deleteConfirm, deleting,
                   serverDocs, reloads, loggedOut>>
    /\ UNCHANGED besideApp

\* the backend answers request id
Respond ==
    \E id \in DOMAIN requests :
        LET r == requests[id]
        IN /\ r.resp = Pending
           /\ \/ /\ r.kind \in {"login", "verify"}
                 /\ \E t \in Tokens :
                       requests' = [requests EXCEPT ![id].resp = Response("200", t, {})]
                 /\ UNCHANGED serverDocs
              \/ /\ r.kind = "login"
                 /\ requests' = [requests EXCEPT ![id].resp = Response("401", NoItem, {})]
                 /\ UNCHANGED serverDocs
              \/ /\ r.kind = "verify"
                 /\ requests' = [requests EXCEPT ![id].resp = Response("400", NoItem, {})]
                 /\ UNCHANGED serverDocs
              \/ /\ r.kind = "delete"
                 /\ requests' = [requests EXCEPT ![id].resp =
                        Response(IF r.doc \in serverDocs THEN "200" ELSE "404", NoItem, {})]
                 /\ serverDocs' = serverDocs \ {r.doc}
              \/ /\ r.kind = "getAll"
                 /\ requests' = [requests EXCEPT ![id].resp = Response("200", NoItem, serverDocs)]
                 /\ UNCHANGED serverDocs
              \/ /\ r.kind \in {"delete", "getAll"}
                 /\ requests' = [requests EXCEPT ![id].resp = Response("500", NoItem, {})]
                 /\ UNCHANGED serverDocs
           /\ UNCHANGED <<storage, page, instance, documents, deleteConfirm, deleting,
                          sent, reloads, loggedOut>>
           /\ UNCHANGED besideApp

\* router.push('/dashboard') from an auth page: a new DashboardPage is
\* mounted and its mount effect calls loadDocuments (lines 2343-2365, 2458-2464)
MountDashboard(reqs, st) ==
    /\ page' = "dashboard"
    /\ instance' = instance + 1
    /\ documents' = << >>
    /\ deleteConfirm' = NoDoc
    /\ deleting' = NoDoc
    /\ Dispatch(reqs, "getAll", NoDoc, instance + 1, st, FALSE)

\* a token was stored and router.push('/dashboard') called
EnterDashboard(reqs, st) ==
    /\ storage' = st
    /\ loggedOut' = FALSE
    /\ IF page # "dashboard"
       THEN MountDashboard(reqs, st)
       ELSE /\ requests' = reqs
            /\ UNCHANGED <<page, instance, documents, deleteConfirm, deleting, sent>>
    /\ UNCHANGED <<serverDocs, reloads>>

\* api.interceptors.response on status 401 (lines 701-705): the auth items
\* are removed and window.location.href loads the login page, which discards
\* the running code and its timers
Unauthorized(reqs) ==
    /\ storage' = [storage EXCEPT !["auth_token"] = NoItem, !["user"] = NoItem]
    /\ page' = "auth"
    /\ requests' = [k \in DOMAIN reqs |-> [reqs[k] EXCEPT !.inst = Dead]]
    /\ reloads' = << >>
    /\ documents' = << >>
    /\ deleteConfirm' = NoDoc
    /\ deleting' = NoDoc
    /\ UNCHANGED <<instance, serverDocs, sent, loggedOut>>

\* the DashboardPage that awaits request r is still the one on the page
Live(r) == r.inst = instance /\ page = "dashboard"

\* handleDeleteDocument after the await (lines 2495-2544)
DeleteSettled(r, reqs) ==
    /\ requests' = reqs
    /\ documents' = IF Live(r) /\ r.resp.status \in {"200", "404"}
                    THEN Keep(documents, Docs \ {r.doc}) ELSE documents
    /\ deleteConfirm' = IF Live(r) /\ r.resp.status \in {"200", "404"}
                        THEN NoDoc ELSE deleteConfirm
    /\ deleting' = IF Live(r) THEN NoDoc ELSE deleting
    /\ reloads' = IF r.resp.status \in {"200", "500"} THEN Append(reloads, r.inst)
                  ELSE reloads
    /\ UNCHANGED <<storage, page, instance, serverDocs, sent, loggedOut>>

\* loadDocuments and the reload callbacks after the await (lines 2463-2474,
\* 2510-2513, 2533-2535)
GetAllSettled(r, reqs) ==
    /\ requests' = reqs
    /\ documents' = IF Live(r) /\ r.resp.status = "200"
                    THEN Listing(r.resp.docs) ELSE documents
    /\ UNCHANGED <<storage, page, instance, deleteConfirm, deleting, serverDocs,
                   sent, reloads, loggedOut>>

\* the response of request id reaches the code that awaits it
Deliver ==
    \E id \in DOMAIN requests :
        LET r == requests[id]
            rest == Forget(requests, id)
        IN /\ r.resp # Pending
           /\ CASE r.inst = Dead ->
                     /\ requests' = rest
                     /\ UNCHANGED <<storage, page, instance, documents, deleteConfirm,
                                    deleting, serverDocs, sent, reloads, loggedOut>>
                [] r.kind = "login" /\ r.resp.status = "200" ->
                     \* page.tsx lines 251-255
                     EnterDashboard(rest, [storage EXCEPT !["auth_token"] = r.resp.token,
                                                          !["user"] = "user"])
                [] r.kind = "verify" /\ r.resp.status = "200" ->
                     \* verify-email/page.tsx lines 23-25
                     EnterDashboard(rest, [storage EXCEPT !["auth_token"] = r.resp.token])
                [] r.kind = "login" /\ r.resp.status = "401" -> Unauthorized(rest)
                [] r.kind = "verify" /\ r.resp.status = "400" ->
                     /\ requests' = rest
                     /\ UNCHANGED <<storage, page, instance, documents, deleteConfirm,
                                    deleting, serverDocs, sent, reloads, loggedOut>>
                [] r.kind = "delete" -> DeleteSettled(r, rest)
                [] r.kind = "getAll" -> GetAllSettled(r, rest)
           /\ UNCHANGED besideApp

\* a setTimeout reload set by handleDeleteDocument fires (lines 2508-2517,
\* 2531-2538)
ReloadFires ==
    /\ \E i \in 1..Len(reloads) :
          /\ Dispatch(requests, "getAll", NoDoc, reloads[i], storage, loggedOut)
          /\ reloads' = SubSeq(reloads, 1, i - 1) \o SubSeq(reloads, i + 1, Len(reloads))
    /\ UNCHANGED <<storage, page, instance, documents, deleteConfirm, deleting,
                   serverDocs, loggedOut>>
    /\ UNCHANGED besideApp

\* the window gets the focus: handleFocus calls loadDocuments (lines 2410-2417)
LoadDocuments ==
    /\ page = "dashboard"
    /\ Send("getAll", NoDoc)
    /\ UNCHANGED <<storage, page, instance, documents, deleteConfirm, deleting,
                   serverDocs, reloads, loggedOut>>
    /\ UNCHANGED besideApp

\* lines 2547-2549, from the trash button of a row (lines 3019-3027)
confirmDelete ==
    /\ page = "dashboard"
    /\ \E doc \in Docs :
          /\ Shown(doc)
          /\ deleteConfirm # doc
          /\ deleting # doc
          /\ deleteConfirm' = doc
    /\ UNCHANGED <<storage, page, instance, documents, deleting, serverDocs,
                   requests, sent, reloads, loggedOut>>
    /\ UNCHANGED besideApp

\* lines 2551-2553, from the cancel button of the row (lines 3010-3017)
cancelDelete ==
    /\ page = "dashboard"
    /\ deleteConfirm # NoDoc
    /\ Shown(deleteConfirm)
    /\ deleting # deleteConfirm
    /\ deleteConfirm' = NoDoc
    /\ UNCHANGED <<storage, page, instance, documents, deleting, serverDocs,
                   requests, sent, reloads, loggedOut>>
    /\ UNCHANGED besideApp

\* lines 2487-2493: handleDeleteDocument up to the await, called from the
\* confirm button of the row (lines 2998-3009)
handleDeleteDocument ==
    /\ page = "dashboard"
    /\ \E docId \in Docs :
          /\ Shown(docId)
          /\ deleteConfirm = docId
          /\ IF deleting = docId
             THEN UNCHANGED <<deleting, requests, sent>>
             ELSE /\ deleting' = docId
                  /\ Send("delete", docId)
    /\ UNCHANGED <<storage, page, instance, documents, deleteConfirm, serverDocs,
                   reloads, loggedOut>>
    /\ UNCHANGED besideApp

\* LogoutButton.tsx lines 23-33; router.push('/') unmounts the dashboard
handleLogout ==
    /\ page = "dashboard"
    /\ storage' = [storage EXCEPT !["token"] = NoItem, !["user"] = NoItem]
    /\ page' = "auth"
    /\ loggedOut' = TRUE
    /\ documents' = << >>
    /\ deleteConfirm' = NoDoc
    /\ deleting' = NoDoc
    /\ UNCHANGED <<instance, serverDocs, requests, sent, reloads>>
    /\ UNCHANGED besideApp

AppNext ==
    \/ LoginSubmit
    \/ VerifySubmit
    \/ Respond
    \/ Deliver
    \/ ReloadFires
    \/ LoadDocuments
    \/ confirmDelete
    \/ cancelDelete
    \/ handleDeleteDocument
    \/ handleLogout

AppSpec == AppInit /\ [][AppNext]_vars

(***************************************************************************)
(* The FileUpload component (lines 404-668).  A file name is the sequence  *)
(* of its characters, a size a number of bytes.  The ids of the upload     *)
(* entries (Math.random, line 448) are modelled as fresh numbers.          *)
(***************************************************************************)
\* files picked in one browser session
MaxFiles == 3
\* files of one change or drop event
MaxBatch == 2

\* line 463: 50 * 1024 * 1024 bytes
MaxFileSize == 52428800

\* the i flag of the regular expression of line 459: the characters of a name
\* with the letters in lower case
LowerCase(c) ==
    CASE c = "P" -> "p"
      [] c = "D" -> "d"
      [] c = "F" -> "f"
      [] c = "T" -> "t"
      [] c = "X" -> "x"
      [] OTHER -> c

Fold(name) == [i \in 1..Len(name) |-> LowerCase(name[i])]

\* the alternatives of /\.(pdf|docx|txt)$/
Extensions == { <<".", "p", "d", "f">>, <<".", "d", "o", "c", "x">>, <<".", "t", "x", "t">> }

\* the $ anchor: the name ends with ext
EndsWith(name, ext) ==
    /\ Len(name) >= Len(ext)
    /\ SubSeq(name, Len(name) - Len(ext) + 1, Len(name)) = ext

\* a check that accepts every name
SupportedAlways(name) == TRUE

\* line 459: uploadFile.file.name.match(/\.(pdf|docx|txt)$/i)
Supported(name) == \E ext \in Extensions : EndsWith(Fold(name), ext)

\* line 463: uploadFile.file.size > 50 * 1024 * 1024
TooLarge(size) == size > MaxFileSize

File(name, size) == [name |-> name, size |-> size]

\* the files the user picks or drops: an upper-case pdf, a text file of
\* exactly 50 MB, a Word file one byte above 50 MB, a program, and a name
\* that holds an extension but does not end with it
Files ==
    { File(<<"a", ".", "P", "D", "F">>, 1024),
      File(<<"b", ".", "t", "x", "t">>, MaxFileSize),
      File(<<"c", ".", "d", "o", "c", "x">>, MaxFileSize + 1),
      File(<<"d", ".", "e", "x", "e">>, 1024),
      File(<<"e", ".", "p", "d", "f", "x">>, 1024) }

\* the FileList of one drop or change event (lines 511-526)
FileLists ==
    UNION { [1..n -> Files] : n \in 1..MaxBatch }

\* UploadFile.error of an entry that has not failed
NoError == "none"

\* lines 468-472, 478-482, 490-494: setFiles(prev => prev.map(...)) for the
\* entry id, and the history of the statuses written to it; an entry that
\* was removed from the list is not written
SetStatus(st, id, status, error) ==
    IF \E i \in 1..Len(st.files) : st.files[i].id = id
    THEN [st EXCEPT
            !.files = [i \in 1..Len(st.files) |->
                         IF st.files[i].id = id
                         THEN [st.files[i] EXCEPT !.status = status, !.error = error]
                         ELSE st.files[i]],
            !.log = [st.log EXCEPT ![id].statuses = Append(@, status)]]
    ELSE st

\* a loop that a failure ends
NoNextFile(newFiles, i) == Len(newFiles) + 1

\* lines 456-498: the try and catch are inside the loop body, so after the
\* failure of file i the loop goes on with file i + 1
NextFile(newFiles, i) == i + 1

\* lines 456-475: the loop from file i of newFiles up to the next await; at is
\* the file whose upload is awaited, 0 when the loop has ended
RECURSIVE Continue(_, _, _)
Continue(st, newFiles, i) ==
    IF i > Len(newFiles) THEN [st EXCEPT !.at = 0]
    ELSE LET f == newFiles[i]
         IN IF ~Supported(f.file.name)
            THEN Continue(SetStatus(st, f.id, "error", "Only PDF, DOCX, and TXT files are supported"),
                          newFiles, NextFile(newFiles, i))
            ELSE IF TooLarge(f.file.size)
            THEN Continue(SetStatus(st, f.id, "error", "File size must be less than 50MB"),
                          newFiles, NextFile(newFiles, i))
            ELSE [SetStatus(st, f.id, "processing", NoError) EXCEPT
                      !.uploads = Append(@, <<f.id, "call">>),
                      !.at = i]

\* the state a run of the loop works on
Loop(fs, lg, ups) == [files |-> fs, log |-> lg, uploads |-> ups, at |-> 0]

\* lines 445-499: handleFiles up to the first await
handleFiles ==
    /\ \E fileList \in FileLists :
          /\ picked + Len(fileList) <= MaxFiles
          /\ LET newFiles == [i \in 1..Len(fileList) |->
                                 [file |-> fileList[i], id |-> picked + i,
                                  status |-> "uploading", error |-> NoError]]
                 entries == [i \in 1..Len(fileList) |->
                                 [file |-> fileList[i], batch |-> handled + 1,
                                  statuses |-> <<"uploading">>]]
                 st == Continue(Loop(files \o newFiles, log \o entries, uploads), newFiles, 1)
             IN /\ files' = st.files
                /\ log' = st.log
                /\ uploads' = st.uploads
                /\ batches' = IF st.at = 0 THEN batches
                              ELSE batches @@ ((handled + 1) :> [newFiles |-> newFiles, at |-> st.at])
                /\ picked' = picked + Len(fileList)
    /\ handled' = handled + 1
    /\ UNCHANGED delivered
    /\ UNCHANGED <<graphVars, appVars, modalVars>>

\* lines 475-497: the upload awaited by the handleFiles call b resolves or
\* rejects, and the loop runs on to its next await
UploadSettles(b) ==
    /\ b \in DOMAIN batches
    /\ \E ok \in BOOLEAN :
          LET c == batches[b]
              f == c.newFiles[c.at]
              now == [Loop(files, log, uploads) EXCEPT !.uploads = Append(@, <<f.id, "done">>)]
              st == IF ok
                    THEN Continue(SetStatus(now, f.id, "success", NoError), c.newFiles, c.at + 1)
                    ELSE Continue(SetStatus(now, f.id, "error", "Upload failed"),
                                  c.newFiles, NextFile(c.newFiles, c.at))
          IN /\ files' = st.files
             /\ log' = st.log
             /\ uploads' = st.uploads
             /\ batches' = IF st.at = 0 THEN [k \in DOMAIN batches \ {b} |-> batches[k]]
                           ELSE [batches EXCEPT ![b].at = st.at]
             \* line 485: onUploadSuccess?.(document)
             /\ delivered' = IF ok THEN delivered \cup {f.id} ELSE delivered
    /\ UNCHANGED <<picked, handled>>
    /\ UNCHANGED <<graphVars, appVars, modalVars>>

\* lines 528-530, from the X button of an entry (lines 652-660)
removeFile ==
    /\ \E i \in 1..Len(files) :
          files' = SubSeq(files, 1, i - 1) \o SubSeq(files, i + 1, Len(files))
    /\ UNCHANGED <<batches, picked, handled, log, uploads, delivered>>
    /\ UNCHANGED <<graphVars, appVars, modalVars>>

UploadInit == GraphIdle /\ AppIdle /\ UploadIdle /\ ModalIdle

UploadNext ==
    \/ handleFiles
    \/ \E b \in 1..MaxFiles : UploadSettles(b)
    \/ removeFile

UploadSpec == UploadInit /\ [][UploadNext]_vars

\* every upload call settles
UploadFairSpec == UploadSpec /\ \A b \in 1..MaxFiles : WF_uploadVars(UploadSettles(b))

(***************************************************************************)
(* The summary modal of the dashboard (lines 2347-2359, 2561-2642,         *)
(* 3039-3360).  An async handler is a call that waits on the api; a call   *)
(* keeps the values of the render it was made from (seen: the              *)
(* selectedDocument of that render).  The documents of the model have a    *)
(* summary and a mind map, so that openSummaryModal starts the script and, *)
(* for a document without audio, the audio generation.                     *)
(***************************************************************************)
\* async handler calls in one dashboard session
MaxCalls == 4

\* lines 3084, 3094, 3104
Tabs == {"summary", "mindmap", "podcast"}

\* the Document of the list for doc (lines 2324-2331)
Document(doc) == [doc_id |-> doc, summary_audio_url |-> audioUrls[doc]]

\* line 3039: showSummaryModal && selectedDocument; the overlay covers the
\* document list (line 3044)
ModalShown == showSummaryModal /\ selectedDocument # NoDocument

\* the dashboard after login and the first loadDocuments of its mount effect
\* (page.tsx 251-255; lines 2362-2365 and 2458-2475)
DashboardLoaded ==
    /\ storage = [k \in StorageKeys |->
                     CASE k = "auth_token" -> "jwt1"
                       [] k = "user" -> "user"
                       [] OTHER -> NoItem]
    /\ page = "dashboard"
    /\ instance = 1
    /\ documents = Listing(Docs)
    /\ deleteConfirm = NoDoc
    /\ deleting = NoDoc
    /\ serverDocs = Docs
    /\ requests = << >>
    /\ sent = 2
    /\ reloads = << >>
    /\ loggedOut = FALSE

\* no document has audio, or the second one has
ModalInit ==
    /\ GraphIdle
    /\ UploadIdle
    /\ DashboardLoaded
    /\ ModalClosed
    /\ \E a \in { [d \in Docs |-> FALSE], [d \in Docs |-> d = "d2"] } :
          /\ audioUrls = a
          /\ serverAudio = a

\* a handler call is made: fn is the handler, doc its argument, seen the
\* selectedDocument of the render the call was made from, auto whether
\* openSummaryModal made it
Call(fn, doc, seen, auto, opening) ==
    [fn |-> fn, doc |-> doc, seen |-> seen, step |-> "first", auto |-> auto,
     opening |-> opening]

Finish(cs, id) == [k \in DOMAIN cs \ {id} |-> cs[k]]

\* lines 2561-2577, from the row of a document (line 2975)
openSummaryModal ==
    /\ page = "dashboard"
    /\ ~ModalShown
    /\ started + 2 <= MaxCalls
    /\ \E i \in 1..Len(documents) :
          LET document == Document(documents[i])
              script == (started + 1) :>
                  Call("loadScriptForDocument", document.doc_id, selectedDocument, TRUE, opened + 1)
              audio == (started + 2) :>
                  Call("handleGenerateAudio", document.doc_id, selectedDocument, TRUE, opened + 1)
          IN /\ selectedDocument' = document
             /\ calls' = IF document.summary_audio_url THEN calls @@ script
                         ELSE calls @@ script @@ audio
             /\ started' = IF document.summary_audio_url THEN started + 1 ELSE started + 2
    /\ showSummaryModal' = TRUE
    /\ activeTab' = "summary"
    \* lines 2580-2581
    /\ loadingScript' = TRUE
    /\ scriptData' = NoDoc
    /\ opened' = opened + 1
    /\ UNCHANGED <<audioUrls, serverAudio>>
    /\ UNCHANGED <<graphVars, appVars, uploadVars>>

\* lines 3084, 3094, 3104: a tab button of the modal
selectTab ==
    /\ ModalShown
    /\ \E tab \in Tabs \ {activeTab} : activeTab' = tab
    /\ UNCHANGED <<selectedDocument, showSummaryModal, scriptData, loadingScript,
                   audioUrls, serverAudio, calls, started, opened>>
    /\ UNCHANGED <<graphVars, appVars, uploadVars>>

\* lines 2610-2616, from the overlay or the close button (lines 3045, 3073)
closeSummaryModal ==
    /\ ModalShown
    /\ showSummaryModal' = FALSE
    /\ selectedDocument' = NoDocument
    /\ scriptData' = NoDoc
    /\ loadingScript' = FALSE
    /\ activeTab' = "summary"
    /\ UNCHANGED <<audioUrls, serverAudio, calls, started, opened>>
    /\ UNCHANGED <<graphVars, appVars, uploadVars>>

\* lines 3219-3226: the buttons of the podcast tab are rendered
PodcastButtons == ModalShown /\ activeTab = "podcast" /\ ~loadingScript

\* lines 2579-2584: loadScriptForDocument up to the await, from the Load
\* Script buttons (lines 3300, 3343)
loadScriptForDocument ==
    /\ PodcastButtons
    /\ started < MaxCalls
    /\ loadingScript' = TRUE
    /\ scriptData' = NoDoc
    /\ calls' = calls @@ ((started + 1) :>
           Call("loadScriptForDocument", selectedDocument.doc_id, selectedDocument, FALSE, opened))
    /\ started' = started + 1
    /\ UNCHANGED <<selectedDocument, showSummaryModal, activeTab, audioUrls,
                   serverAudio, opened>>
    /\ UNCHANGED <<graphVars, appVars, uploadVars>>

\* lines 2584-2591: getPodcastScript settles
ScriptSettles ==
    /\ \E id \in DOMAIN calls, ok \in BOOLEAN :
          /\ calls[id].fn = "loadScriptForDocument"
          /\ scriptData' = IF ok THEN calls[id].doc ELSE scriptData
          /\ calls' = Finish(calls, id)
    /\ loadingScript' = FALSE
    /\ UNCHANGED <<selectedDocument, showSummaryModal, activeTab, audioUrls,
                   serverAudio, started, opened>>
    /\ UNCHANGED <<graphVars, appVars, uploadVars>>

\* lines 2620-2623: handleGenerateAudio up to the first await, from the
\* Generate Audio buttons (lines 3253, 3315)
handleGenerateAudio ==
    /\ PodcastButtons
    /\ ~selectedDocument.summary_audio_url
    /\ started < MaxCalls
    /\ calls' = calls @@ ((started + 1) :>
           Call("handleGenerateAudio", selectedDocument.doc_id, selectedDocument, FALSE, opened))
    /\ started' = started + 1
    /\ UNCHANGED <<selectedDocument, showSummaryModal, scriptData, loadingScript,
                   activeTab, audioUrls, serverAudio, opened>>
    /\ UNCHANGED <<graphVars, appVars, uploadVars>>

\* lines 2623-2628 and 2638-2641: generateAudio settles; on success the
\* backend holds the audio (lines 1954-1977) and loadDocuments is awaited
AudioSettles ==
    /\ \E id \in DOMAIN calls, ok \in BOOLEAN :
          /\ calls[id].fn = "handleGenerateAudio"
          /\ calls[id].step = "first"
          /\ serverAudio' = IF ok THEN [serverAudio EXCEPT ![calls[id].doc] = TRUE]
                            ELSE serverAudio
          /\ calls' = IF ok THEN [calls EXCEPT ![id].step = "loadDocuments"]
                      ELSE Finish(calls, id)
    /\ UNCHANGED <<selectedDocument, showSummaryModal, scriptData, loadingScript,
                   activeTab, audioUrls, started, opened>>
    /\ UNCHANGED <<graphVars, appVars, uploadVars>>

\* line 2631: selectedDocument && selectedDocument.doc_id === docId, read from
\* the render the call was made from
SeesSelected(c) == c.seen # NoDocument /\ c.seen.doc_id = c.doc

\* lines 2628-2632 with 2458-2475: the getAll of loadDocuments settles, and
\* handleGenerateAudio goes on to its own getAll or returns
ReloadSettles ==
    /\ \E id \in DOMAIN calls, ok \in BOOLEAN :
          /\ calls[id].step = "loadDocuments"
          /\ documents' = IF ok THEN Listing(serverDocs) ELSE documents
          /\ audioUrls' = IF ok THEN serverAudio ELSE audioUrls
          /\ calls' = IF SeesSelected(calls[id]) THEN [calls EXCEPT ![id].step = "getAll"]
                      ELSE Finish(calls, id)
    /\ UNCHANGED <<selectedDocument, showSummaryModal, scriptData, loadingScript,
                   activeTab, serverAudio, started, opened>>
    /\ UNCHANGED <<storage, page, instance, deleteConfirm, deleting, serverDocs,
                   requests, sent, reloads, loggedOut>>
    /\ UNCHANGED <<graphVars, uploadVars>>

\* lines 2632-2641: the getAll of handleGenerateAudio settles
RefreshSettles ==
    /\ \E id \in DOMAIN calls, ok \in BOOLEAN :
          /\ calls[id].step = "getAll"
          /\ selectedDocument' =
                IF ok /\ calls[id].doc \in serverDocs
                THEN [doc_id |-> calls[id].doc, summary_audio_url |-> serverAudio[calls[id].doc]]
                ELSE selectedDocument
          /\ calls' = Finish(calls, id)
    /\ UNCHANGED <<showSummaryModal, scriptData, loadingScript, activeTab,
                   audioUrls, serverAudio, started, opened>>
    /\ UNCHANGED <<graphVars, appVars, uploadVars>>

ModalNext ==
    \/ openSummaryModal
    \/ selectTab
    \/ closeSummaryModal
    \/ loadScriptForDocument
    \/ ScriptSettles
    \/ handleGenerateAudio
    \/ AudioSettles
    \/ ReloadSettles
    \/ RefreshSettles

ModalSpec == ModalInit /\ [][ModalNext]_vars

(***************************************************************************)
(* Properties                                                              *)
(***************************************************************************)
InClampedBounds(node) ==
    /\ Margin * FP <= node.x /\ node.x <= (width - Margin) * FP
    /\ Margin * FP <= node.y /\ node.y <= (height - Margin) * FP

\* C1: after every simulation tick every node of the layout state has
\* 50 <= x <= width - 50 and 50 <= y <= height - 50, whatever pointer events
\* came between the ticks.
C1_TickKeepsNodesInBounds ==
    last = "tick" => \A i \in 1..Len(nodes) : InClampedBounds(nodes[i])

\* the node being dragged, as a set of indices into nodes
Dragged == IF isDragging /\ dragNode # NoNode
           THEN { i \in 1..Len(nodes) : nodes[i].id = dragNode }
           ELSE {}

\* C2: from the first pointer-move of a drag until the release, the dragged
\* node is at the most recent pointer coordinate in every state, also when
\* ticks interleave with the moves.
C2_DraggedNodeFollowsPointer ==
    pointer # NoPointer =>
        \A i \in Dragged : nodes[i].x = pointer[1] * FP /\ nodes[i].y = pointer[2] * FP

\* C3: while a node is being dragged a tick leaves its x, y, vx, vy unchanged
\* and force-integrates every other positioned node.
C3_TickSkipsDraggedNode ==
    [][ last' = "tick" =>
          /\ \A i \in Dragged : nodes'[i] = nodes[i]
          /\ \A i \in (1..Len(nodes)) \ Dragged :
                nodes'[i] = Simulate(nodes, data, width, height)[i] ]_vars

\* C4: right after a drag ends (pointer-up or pointer leaving the svg) the
\* node that was dragged has vx = 0 and vy = 0.
C4_ReleaseZeroesVelocity ==
    (last \in {"up", "leave"} /\ released # NoNode) =>
        \A i \in 1..Len(nodes) :
            nodes[i].id = released => nodes[i].vx = 0 /\ nodes[i].vy = 0

\* C5: on every exit path of a simulation run (cutoff elapsed, unmount,
\* changed props) the interval of that run is cancelled, so no tick of it can
\* run afterwards: an active interval belongs to the latest effect run of a
\* mounted component whose cutoff has not fired yet.
C5_IntervalCancelledOnEveryExit ==
    \A id \in DOMAIN intervals :
        /\ mounted
        /\ id = runs
        /\ id \in DOMAIN timeouts

\* the props changed inside the window of the first run: its interval is
\* gone, its timeout still pending, and the second run is ticking
C5_Witness ==
    /\ runs = 2
    /\ 1 \in DOMAIN timeouts
    /\ 2 \in DOMAIN intervals
    /\ last = "tick"

\* 3000 ms cutoff / 50 ms period
MaxTicks == SimCutoff \div SimPeriod

\* C6: an initialization runs at most 60 ticks, its loop is cancelled without
\* any user action, and once no loop is active the positions change only by a
\* pointer-move of a drag (or by the next initialization).
C6_BoundedSimulation ==
    /\ [](ticks <= MaxTicks)
    /\ (DOMAIN intervals # {}) ~> (DOMAIN intervals = {})
    /\ [][ (DOMAIN intervals = {} /\ nodes' # nodes) => last' \in {"move", "init"} ]_vars

\* the loop ran its 60 ticks, was cancelled, and a drag then moved a node
C6_Witness ==
    /\ ticks = MaxTicks
    /\ DOMAIN intervals = {}
    /\ last = "move"
    /\ Dragged # {}

\* C7: right after initialization every node is inside the viewport,
\* 0 <= x <= width and 0 <= y <= height, for every viewport.
C7_InitInsideViewport ==
    last = "init" =>
        \A i \in 1..Len(nodes) :
            /\ 0 <= nodes[i].x /\ nodes[i].x <= width * FP
            /\ 0 <= nodes[i].y /\ nodes[i].y <= height * FP

\* C8: an edge whose endpoints coincide (a self-loop included) is omitted by
\* the renderer: nothing drawn has a zero length or a NaN coordinate.
C8_ZeroLengthEdgeOmitted ==
    \A k \in 1..Len(edges) :
        LET r == RenderEdges[k]
        IN r.drawn =>
              /\ r.length # 0
              /\ r.x1 # NaN /\ r.y1 # NaN /\ r.x2 # NaN /\ r.y2 # NaN

Known(ns, id) == \E i \in 1..Len(ns) : ns[i].id = id

HasPosition(node) == node.x # 0 /\ node.y # 0

Positioned(ns, id) == \E i \in 1..Len(ns) : ns[i].id = id /\ HasPosition(ns[i])

\* the edges of es whose two identifiers name nodes of ns
LiveEdge(ns, edge) == Known(ns, edge.from) /\ Known(ns, edge.to)

RECURSIVE LiveEdges(_, _)
LiveEdges(ns, es) ==
    IF Len(es) = 0 THEN << >>
    ELSE (IF LiveEdge(ns, Head(es)) THEN << Head(es) >> ELSE << >>)
             \o LiveEdges(ns, Tail(es))

FromCentre(x, y, node) == Hypot(x[1] - node.x, y[1] - node.y)

\* C10: a rendered edge starts on the circle drawn for its source node, ends
\* on the circle drawn for its destination node, and neither end lies strictly
\* inside either circle (up to 0.05 px of rounding).
C10_EdgeEndsOnCircleBoundary ==
    \A k \in 1..Len(edges) :
        LET r == RenderEdges[k]
        IN (r.drawn /\ r.length # 0) =>
              /\ Abs(FromCentre(r.x1, r.y1, nodes[r.from]) - CircleRadius(nodes[r.from])) <= 5
              /\ Abs(FromCentre(r.x2, r.y2, nodes[r.to]) - CircleRadius(nodes[r.to])) <= 5
              /\ FromCentre(r.x1, r.y1, nodes[r.to]) >= CircleRadius(nodes[r.to]) - 5
              /\ FromCentre(r.x2, r.y2, nodes[r.from]) >= CircleRadius(nodes[r.from]) - 5

\* the radius of a size class, in 1/FP pixels
ClassRadius(size) ==
    FP * (CASE size = "large" -> 35
            [] size = "medium" -> 28
            [] size = "small" -> 22
            [] OTHER -> 25)

\* v = r * (d / length) for a component d of a vector of that length, up to
\* 0.02 px of rounding
AlongUnit(v, r, d, length) == Abs(v * length - r * d) <= 2 * length

\* C11: for an edge between two nodes at distinct positions the line starts at
\* source centre + r_source * u and ends at destination centre - r_dest * u,
\* u the unit vector from source to destination and r the radius of the
\* node's size class (35, 28, 22, otherwise 25).
C11_EdgeEndpointsOffsetByRadius ==
    \A k \in 1..Len(edges) :
        LET r == RenderEdges[k]
        IN (r.drawn /\ r.length # 0) =>
              LET f == nodes[r.from]
                  t == nodes[r.to]
                  dx == t.x - f.x
                  dy == t.y - f.y
                  length == Hypot(dx, dy)
              IN /\ AlongUnit(r.x1[1] - f.x, ClassRadius(f.size), dx, length)
                 /\ AlongUnit(r.y1[1] - f.y, ClassRadius(f.size), dy, length)
                 /\ AlongUnit(t.x - r.x2[1], ClassRadius(t.size), dx, length)
                 /\ AlongUnit(t.y - r.y2[1], ClassRadius(t.size), dy, length)

\* an edge is drawn between two distinct positions, from a node whose size is
\* none of large, medium, small to a node of class small
C11_Witness ==
    \E k \in 1..Len(edges) :
        /\ RenderEdges[k].drawn
        /\ RenderEdges[k].length # 0
        /\ nodes[RenderEdges[k].from].size \notin {"large", "medium", "small"}
        /\ nodes[RenderEdges[k].to].size = "small"
        /\ last = "tick"

\* the interval of the latest effect run was cleared by its own cutoff
RanToCutoff ==
    /\ mounted
    /\ DOMAIN intervals = {}
    /\ cleanup # NoTimer
    /\ cleanup \notin DOMAIN timeouts

\* no pointer-down has reached the component: nothing was ever dragged
NeverDragged == selectedNode = NoNode /\ ~isDragging /\ dragNode = NoNode

\* C12: for {central, key} with the primary edge central -> key in the 800x600
\* viewport, once the simulation has run to its cutoff with no drag, both
\* nodes are inside the clamped bounds, their centres are farther apart than
\* the sum of their radii, and the edge line neither starts nor ends inside
\* either circle, for every initial jitter.
C12_TwoNodeExampleSettles ==
    (/\ data = GraphPrimary
     /\ width = DefaultWidth
     /\ height = DefaultHeight
     /\ RanToCutoff
     /\ NeverDragged) =>
        /\ \A i \in 1..Len(nodes) : InClampedBounds(nodes[i])
        /\ Hypot(nodes[2].x - nodes[1].x, nodes[2].y - nodes[1].y)
              > CircleRadius(nodes[1]) + CircleRadius(nodes[2])
        /\ RenderEdges[1].drawn
        /\ \A i \in 1..2 :
              /\ FromCentre(RenderEdges[1].x1, RenderEdges[1].y1, nodes[i])
                    >= CircleRadius(nodes[i]) - 5
              /\ FromCentre(RenderEdges[1].x2, RenderEdges[1].y2, nodes[i])
                    >= CircleRadius(nodes[i]) - 5

\* the example has run its ticks to the cutoff and nothing was dragged
C12_Witness ==
    /\ data = GraphPrimary
    /\ width = DefaultWidth
    /\ height = DefaultHeight
    /\ RanToCutoff
    /\ NeverDragged
    /\ ticks >= MaxTicks - 1
    /\ last = "cutoff"

\* node i (counted from 1) of n is at angle 2*pi*(i-1)/n around the centre of
\* the viewport, within 20 px of the ring of radius 0.35 * min(width, height),
\* and at rest
OnRing(node, i, n) ==
    LET rx == node.x - CenterX(width)
        ry == node.y - CenterY(height)
        ring == (35 * Min(width, height) * FP) \div 100
    IN /\ Abs(Hypot(rx, ry) - ring) <= 20 * FP + 2
       /\ Abs(rx * Sin1000(i - 1, n) - ry * Cos1000(i - 1, n)) <= 2000
       /\ rx * Cos1000(i - 1, n) + ry * Sin1000(i - 1, n) > 0
       /\ node.vx = 0 /\ node.vy = 0

\* C13: re-initializing (changed graph or viewport props) lays the graph out
\* from scratch: every node i of N is on the ring at angle 2*pi*i/N within the
\* 20 px jitter, with zero velocity; nothing of earlier ticks or drags is left.
C13_ReinitFromScratch ==
    (last = "init" /\ runs > 1) =>
        /\ Len(nodes) = Len(data.nodes)
        /\ \A i \in 1..Len(nodes) :
              /\ nodes[i].id = data.nodes[i].id
              /\ OnRing(nodes[i], i, Len(nodes))

\* the props changed while a node was held after a tick of the first run
C13_Witness ==
    /\ last = "init"
    /\ runs = 2
    /\ isDragging
    /\ 1 \in DOMAIN timeouts /\ timeouts[1].rem < SimCutoff

\* the fields of a node that come from the payload
IdentityFields == {"id", "label", "type", "description", "size"}

Identity(node) == [f \in IdentityFields \cap DOMAIN node |-> node[f]]

\* C14: no operation of the engine changes the payload, the edge list or the
\* id, label, type, description or size of a node; initialization copies
\* them from the payload and afterwards only x, y, vx, vy are written.
C14_OnlyPositionAndVelocityWritten ==
    [][ /\ last' \in {"tick", "cutoff", "down", "move", "up", "leave", "unmount"} =>
            /\ data' = data
            /\ edges' = edges
            /\ Len(nodes') = Len(nodes)
            /\ \A i \in 1..Len(nodes) :
                  /\ Identity(nodes'[i]) = Identity(nodes[i])
                  /\ DOMAIN nodes'[i] = DOMAIN nodes[i]
        /\ last' = "init" =>
            /\ edges' = data'.edges
            /\ Len(nodes') = Len(data'.nodes)
            /\ \A i \in 1..Len(nodes') :
                  /\ Identity(nodes'[i]) = data'.nodes[i]
                  /\ DOMAIN nodes'[i] = IdentityFields \cup {"x", "y", "vx", "vy"} ]_vars

\* a tick has run and a pointer-move has then moved the dragged node
C14_Witness ==
    /\ last = "move"
    /\ pointer # NoPointer
    /\ ticks >= 1
    /\ \E i \in Dragged : nodes[i].x = pointer[1] * FP

\* the nodes as iteration i of the loop of a tick sees them: the nodes before
\* it already updated, the others not yet
SeenBy(i) == [j \in 1..Len(nodes) |-> IF j < i THEN nodes'[j] ELSE nodes[j]]

\* a force of magnitude 500 / d^2 on `node` directed away from `other` when
\* their distance d has 0 < d < 120, no force otherwise
RepulsionByDistance(node, other) ==
    LET dx == node.x - other.x
        dy == node.y - other.y
    IN IF Abs(dx) >= MinDistance * FP \/ Abs(dy) >= MinDistance * FP
       THEN <<0, 0>>
       ELSE LET d2 == dx * dx + dy * dy
            IN IF d2 > 0 /\ d2 < (MinDistance * FP) * (MinDistance * FP)
               THEN << Trunc(dx * ((RepulsionK * FP * FP * FP) \div d2), Hypot(dx, dy)),
                       Trunc(dy * ((RepulsionK * FP * FP * FP) \div d2), Hypot(dx, dy)) >>
               ELSE <<0, 0>>

RECURSIVE SumRepulsionByDistance(_, _, _)
SumRepulsionByDistance(ns, i, j) ==
    IF j > Len(ns) THEN <<0, 0>>
    ELSE IF j = i THEN SumRepulsionByDistance(ns, i, j + 1)
    ELSE Add2(RepulsionByDistance(ns[i], ns[j]), SumRepulsionByDistance(ns, i, j + 1))

\* C15: in a tick the repulsion on a simulated node is the sum, over every
\* other node at distance d with 0 < d < 120, of a force 500 / d^2 directed
\* away from it; nodes at 120 or more and at d = 0 add nothing.
C15_RepulsionFromEveryNearNode ==
    [][ last' = "tick" =>
          \A i \in 1..Len(nodes) :
              ~Skipped(nodes[i]) =>
                  nodes'[i] = Integrate(nodes[i],
                                  Add2(Add2(SumRepulsionByDistance(SeenBy(i), i, 1),
                                            AttractionFrom(SeenBy(i), i, data.edges, 1)),
                                       Centering(nodes[i], width, height)),
                                  width, height) ]_vars

\* a force of magnitude 0.1 on `node` toward the node the edge connects it
\* with, when that node exists and is farther than 100 away; no force for an
\* edge that does not touch the node, a self-loop or an unknown identifier
AttractionByDistance(ns, node, edge) ==
    LET c == ConnectedNode(ns, node, edge)
    IN IF c = 0 THEN <<0, 0>>
       ELSE LET dx == ns[c].x - node.x
                dy == ns[c].y - node.y
            IN IF BeyondRest(dx, dy)
               THEN << Trunc(dx * AttractionForce, Hypot(dx, dy)),
                       Trunc(dy * AttractionForce, Hypot(dx, dy)) >>
               ELSE <<0, 0>>

RECURSIVE SumAttractionByDistance(_, _, _, _)
SumAttractionByDistance(ns, i, es, k) ==
    IF k > Len(es) THEN <<0, 0>>
    ELSE Add2(AttractionByDistance(ns, ns[i], es[k]),
              SumAttractionByDistance(ns, i, es, k + 1))

\* C16: in a tick every edge touching a simulated node (once per edge,
\* duplicates separately) adds a force 0.1 toward the connected node exactly
\* when their distance is greater than 100; shorter edges, self-loops and
\* edges to unknown nodes add nothing.
C16_AttractionAlongEveryLongEdge ==
    [][ last' = "tick" =>
          \A i \in 1..Len(nodes) :
              ~Skipped(nodes[i]) =>
                  nodes'[i] = Integrate(nodes[i],
                                  Add2(Add2(RepulsionFrom(SeenBy(i), i, 1),
                                            SumAttractionByDistance(SeenBy(i), i, data.edges, 1)),
                                       Centering(nodes[i], width, height)),
                                  width, height) ]_vars

\* 0.01 * (viewport centre - position)
CentrePull(node) ==
    << Trunc((width * FP) \div 2 - node.x, 100), Trunc((height * FP) \div 2 - node.y, 100) >>

\* v2 = 0.8 * v + 0.1 * f, up to the truncation of the last digit
DampedStep(v2, v, f) == Abs(10 * v2 - (8 * v + f)) < 10 /\ (v2 # 0 => (v2 > 0) = (8 * v + f > 0))

\* p clamped into [50, size - 50] px
Within(p, size) ==
    IF p < 50 * FP THEN 50 * FP ELSE IF p > (size - 50) * FP THEN (size - 50) * FP ELSE p

\* C17: in a tick the velocity of each simulated node becomes 0.8 v + 0.1 F,
\* F the sum of repulsion, attraction and the centering force
\* 0.01 * (viewport centre - position); its position becomes p + v', clamped
\* to [50, width - 50] x [50, height - 50]; the velocity is not clamped.
C17_DampedIntegrationAndClamp ==
    [][ last' = "tick" =>
          \A i \in 1..Len(nodes) :
              ~Skipped(nodes[i]) =>
                  \A ns \in { SeenBy(i) } :
                  \A F \in { Add2(Add2(RepulsionFrom(ns, i, 1),
                                       AttractionFrom(ns, i, data.edges, 1)),
                                  CentrePull(nodes[i])) } :
                     /\ DampedStep(nodes'[i].vx, nodes[i].vx, F[1])
                     /\ DampedStep(nodes'[i].vy, nodes[i].vy, F[2])
                     /\ nodes'[i].x = Within(nodes[i].x + nodes'[i].vx, width)
                     /\ nodes'[i].y = Within(nodes[i].y + nodes'[i].vy, height) ]_vars

\* after the second tick a node sits on the clamp while its velocity still
\* points out of the bounds
C17_Witness ==
    /\ last = "tick"
    /\ ticks >= 2
    /\ \E i \in 1..Len(nodes) :
          \/ nodes[i].x = Margin * FP /\ nodes[i].vx < 0
          \/ nodes[i].x = (width - Margin) * FP /\ nodes[i].vx > 0

\* C18: the selected node is set only by a pointer-down on a node, stays
\* selected after the release, and is in every state a node of the graph
\* now displayed, also after the payload was replaced by another graph.
C18_SelectionIsDisplayedNode ==
    /\ [](selectedNode # NoNode => \E i \in 1..Len(nodes) : nodes[i].id = selectedNode)
    /\ [][ selectedNode' # selectedNode =>
              last' = "down" /\ \E i \in 1..Len(nodes) : nodes[i].id = selectedNode' ]_vars
    /\ [][ last' \in {"up", "leave"} => selectedNode' = selectedNode ]_vars

\* C19: after handleLogout local storage holds no authentication data, and
\* every api request issued after the logout carries no Authorization header.
C19_LogoutClearsAuth ==
    /\ loggedOut => \A k \in StorageKeys : storage[k] = NoItem
    /\ \A id \in DOMAIN requests : requests[id].late => requests[id].auth = NoHeader

\* the delete requests for doc that the dashboard on the page is awaiting
DeletesInFlight(doc) ==
    { id \in DOMAIN requests :
        /\ requests[id].kind = "delete"
        /\ requests[id].doc = doc
        /\ requests[id].inst = instance }

\* C20: while a delete request for a document is in flight, a further
\* handleDeleteDocument call for that document sends no second delete
\* request, whatever deletes of other documents start or complete meanwhile.
C20_OneDeleteInFlightPerDocument ==
    \A doc \in Docs : Cardinality(DeletesInFlight(doc)) <= 1

\* C24: at most one simulation interval is active at any time, and right after
\* the effect ran again the only interval that can tick is the one it has just
\* created: the interval of the previous run is gone before any new tick.
C24_AtMostOneInterval ==
    /\ Cardinality(DOMAIN intervals) <= 1
    /\ last \in {"init", "props"} => DOMAIN intervals \subseteq {runs}
    /\ last = "tick" => cleanup = runs

\* the props changed twice and the interval of the third run is ticking
C24_Witness ==
    /\ runs = 3
    /\ DOMAIN intervals = {3}
    /\ last = "tick"
    /\ ticks = 1

\* C25: while the cutoff timeout of the current run of a mounted component is
\* pending, the interval of that run is active, whichever earlier timeouts
\* fire meanwhile; and when the run's own cutoff has fired the run has had its
\* 3000 ms of ticks (59 or 60 of them, the last tick and the cutoff being due
\* at the same instant).
C25_LaterRunKeepsItsInterval ==
    /\ (mounted /\ cleanup # NoTimer /\ cleanup \in DOMAIN timeouts)
           => cleanup \in DOMAIN intervals
    /\ (last = "cutoff" /\ cleanup # NoTimer /\ cleanup \notin DOMAIN timeouts)
           => ticks >= MaxTicks - 1

\* the timeout left by the first run has just fired inside the window of the
\* second run, whose interval and timeout are still there
C25_Witness ==
    /\ runs = 2
    /\ last = "cutoff"
    /\ 1 \notin DOMAIN timeouts
    /\ DOMAIN timeouts = {2}
    /\ DOMAIN intervals = {2}
    /\ ticks >= MaxTicks - 1

\* C26: every node of the layout state is rendered and is not skipped by the
\* tick as having no position, whatever ticks and drag events happened.
C26_NodesKeepTheirPosition ==
    \A i \in 1..Len(nodes) : NodeDrawn(nodes[i]) /\ ~Skipped(nodes[i])

\* C28: a pointer-move leaves every node other than the dragged one unchanged,
\* and changes no node at all when no drag is active: before any pointer-down
\* (nothing was ever selected), right after a pointer-up or a pointer-leave,
\* or whenever the drag state is cleared.
C28_MoveChangesOnlyDraggedNode ==
    [][ last' = "move" =>
          /\ \A i \in 1..Len(nodes) : nodes[i].id # dragNode => nodes'[i] = nodes[i]
          /\ Len(nodes') = Len(nodes)
          /\ (selectedNode = NoNode \/ last \in {"up", "leave"} \/ ~isDragging)
                => nodes' = nodes ]_vars

\* a pointer-move after the pointer-down and the release of a drag
C28_Witness ==
    /\ last = "move"
    /\ selectedNode # NoNode
    /\ ~isDragging
    /\ dragNode = NoNode
    /\ events = 3

\* the name of the file of entry id ends in none of .pdf, .docx, .txt,
\* whatever the case of its letters
BadName(id) == \A ext \in Extensions : ~EndsWith(Fold(log[id].file.name), ext)

\* the file of entry id is larger than 50 MB
Oversized(id) == log[id].file.size > MaxFileSize

Called(id) == \E p \in 1..Len(uploads) : uploads[p] = <<id, "call">>

\* C22: a file with an unsupported name or of more than 50 MB is never passed
\* to documentsAPI.upload, the only statuses it ever has are 'uploading' and
\* then 'error', and onUploadSuccess is not called for it.
C22_RejectedFileNeverUploaded ==
    \A id \in 1..picked :
        (BadName(id) \/ Oversized(id)) =>
            /\ ~Called(id)
            /\ log[id].statuses \in { <<"uploading">>, <<"uploading", "error">> }
            /\ id \notin delivered

\* a file with an unsupported name and an oversized Word file were rejected,
\* the first of them after it had waited behind an upload that succeeded
C22_Witness ==
    \E i, j, k \in 1..picked :
        /\ k < i
        /\ log[k].batch = log[i].batch
        /\ k \in delivered
        /\ BadName(i)
        /\ log[i].statuses = <<"uploading", "error">>
        /\ ~BadName(j) /\ Oversized(j)
        /\ log[j].statuses = <<"uploading", "error">>

Terminal == {"success", "error"}

InList(id) == \E i \in 1..Len(files) : files[i].id = id

Settled(id) == \E i \in 1..Len(files) : files[i].id = id /\ files[i].status \in Terminal

\* the uploads of one handleFiles call are made in list order, each after the
\* one before it has settled
OneAtATime ==
    \A p \in 1..Len(uploads) : \A q \in 1..(p - 1) :
        (/\ uploads[p][2] = "call"
         /\ uploads[q][2] = "call"
         /\ log[uploads[q][1]].batch = log[uploads[p][1]].batch)
        => /\ uploads[q][1] < uploads[p][1]
           /\ \E r \in (q + 1)..(p - 1) : uploads[r] = <<uploads[q][1], "done">>

\* an entry without a terminal status is the one a running handleFiles call
\* is uploading ('processing') or one queued behind it ('uploading')
InProgress ==
    \A i \in 1..Len(files) :
        files[i].status \notin Terminal =>
            \E b \in DOMAIN batches :
            \E k \in batches[b].at..Len(batches[b].newFiles) :
                /\ batches[b].newFiles[k].id = files[i].id
                /\ files[i].status = "processing" <=> k = batches[b].at

\* a terminal status is the last status written to an entry
OneTerminal ==
    \A id \in 1..picked :
    \A n \in 1..Len(log[id].statuses) :
        log[id].statuses[n] \in Terminal => n = Len(log[id].statuses)

\* C23: the files of a batch are uploaded one at a time in list order; a file
\* that has no terminal status yet is being uploaded or is queued behind the
\* upload of its batch, also after the failure of a file before it; a
\* terminal status is written once and never changes; and, every upload call
\* settling, each file that stays in the list gets to 'success' or 'error'.
C23_EveryFileReachesOneTerminalStatus ==
    /\ [](OneAtATime /\ InProgress /\ OneTerminal)
    /\ [][ \A i \in 1..Len(files) : \A j \in 1..Len(files') :
              (files[i].status \in Terminal /\ files'[j].id = files[i].id)
                 => files'[j].status = files[i].status ]_vars
    /\ \A id \in 1..MaxFiles : InList(id) ~> (~InList(id) \/ Settled(id))

\* the upload of the first file of a batch was rejected, the upload of the
\* second file followed and succeeded, and both are in the list
C23_Witness ==
    \E i, j \in 1..picked :
        /\ i < j
        /\ log[i].batch = log[j].batch
        /\ log[i].statuses = <<"uploading", "processing", "error">>
        /\ log[j].statuses = <<"uploading", "processing", "success">>
        /\ Settled(i) /\ Settled(j)
        /\ batches = << >>

\* C21: when a handleGenerateAudio call that openSummaryModal started returns
\* after the generation succeeded and the reloaded list carries the audio URL
\* of its document, and the modal has shown that document since the call was
\* made, the selected document of the modal carries the audio URL.
C21_AutoAudioRefreshesSelectedDocument ==
    [][ \A id \in DOMAIN calls \ DOMAIN calls' :
          (/\ calls[id].fn = "handleGenerateAudio"
           /\ calls[id].auto
           /\ calls[id].step # "first"
           /\ audioUrls'[calls[id].doc]
           /\ ModalShown
           /\ calls[id].opening = opened
           /\ selectedDocument.doc_id = calls[id].doc)
          => selectedDocument'.summary_audio_url ]_vars

\* C27: the script the open modal shows is null or the script of the selected
\* document.
C27_ScriptBelongsToSelectedDocument ==
    ModalShown => (scriptData = NoDoc \/ scriptData = selectedDocument.doc_id)

====
